---- MODULE Spec2Model ----
(***************************************************************************)
(* Authentication core of EOS_APP: local_auth (Authenticate), check_jwt    *)
(* (CheckToken), logout (Logout) and JWTService (token codec, session      *)
(* admission), run by concurrent request workers against one database.     *)
(*                                                                         *)
(* Granularity: one action per database transaction (one                   *)
(* `with get_db_session()` block, committed or rolled back as a unit) and  *)
(* one action per access to the class attributes JWTService._private_key   *)
(* and JWTService._public_key.  In-memory code between two such points is   *)
(* folded into the action that precedes it.                                *)
(***************************************************************************)
EXTENDS Integers, Sequences, FiniteSets, TLC

\* ---------------------------------------------------------------- bounds
\* Largest value of the clock (seconds since the start of the run).
MaxTime == 3
\* Number of Authenticate requests and create_session calls, and of other
\* requests, received in a run of Spec.
MaxAuths == 1
MaxRequests == 2
\* Number of requests received, and largest value of the clock, in a run of
\* SpecAdmission.
MaxAdmissions == 4
MaxAdmissionTime == 1
\* Number of check_jwt requests received in a run of SpecKeys.
MaxChecks == 4
\* Number of concurrent request workers.
NumProcs == 2
\* Number of migration file names, and of run_migrations and
\* check_migrations_status calls in a run of SpecMigration.
MaxFiles == 3
MaxRuns == 3
\* Largest db.max_retries, and number of wait_for_database_connection calls, in
\* a run of SpecWait.
MaxRetries == 3
MaxWaits == 3
\* Number of ConfigReader.reload calls in a run of SpecConfig.
MaxReloads == 3

Procs == 1..NumProcs

\* ---------------------------------------------- configuration (JWTService)
\* app.access_expires, app.refresh_expires (seconds) and app.count_session,
\* scaled to the model's clock.
AccessExpires == 1
RefreshExpires == 2
MaxSessions == 2

\* ------------------------------------------------------------ users table
\* users(userlogin, user_id, password_hash): read-only here.
Logins == {"alice", "bob", "ghost"}
PasswordHashes == {"h1", "h2"}
UserIds == {"u1", "u2"}

UsersTable ==
  [l \in {"alice", "bob"} |->
     IF l = "alice" THEN [user_id |-> "u1", password_hash |-> "h1"]
                    ELSE [user_id |-> "u2", password_hash |-> "h2"]]

\* ----------------------------------------------------------------- tokens
\* A JWT is determined by its payload and the key that signed it (RS256 is
\* deterministic): two calls of generate_tokens for one user in one second
\* with one key yield the same strings.
Token(u, t, ttl, ty, k) ==
  [user_id |-> u, iat |-> t, exp |-> t + ttl, type |-> ty, key |-> k]

\* Header absent or empty.
NoToken == [user_id |-> "", iat |-> 0, exp |-> 0, type |-> "none", key |-> 0]
\* A string that is not a JWT.
Garbage == [user_id |-> "", iat |-> 0, exp |-> 0, type |-> "garbage", key |-> 0]

\* Keys generated in this process are numbered 1, 2, ...; 0 stands for None.
\* ForeignKey is a key pair this process never held.
ForeignKey == NumProcs + 1

ForeignTokens == {Token("u1", 0, AccessExpires, "access", ForeignKey)}

\* hashlib.sha256(...).hexdigest() in local_auth and SHA256(...) in the SQL of
\* check_jwt: one injective digest.
SHA256(tok) == <<"sha256", tok>>

\* A decode that accepts any well-formed token without verifying its signature.
DecodeUnverified(tok, pub) == tok.type \in {"access", "refresh"}

\* jwt.decode(token, public_key, algorithms=['RS256'], options={'verify_exp': False}):
\* TRUE iff it returns a payload; FALSE iff it raises jwt.InvalidTokenError.
DecodeOk(tok, pub) ==
  /\ tok.type \in {"access", "refresh"}
  /\ tok.key = pub

\* -------------------------------------------------------------- responses
NoResp == [code |-> 0, token_valid |-> FALSE, refresh |-> FALSE, verdict |-> "none",
           message |-> "", access_token |-> NoToken, refresh_token |-> NoToken,
           expires_in |-> 0]

Resp(c, v) == [NoResp EXCEPT !.code = c, !.verdict = v]

NoReq == [op |-> "none", login |-> "", password |-> "", access_token |-> NoToken,
          refresh_token |-> NoToken, user_id |-> ""]

\* Locals of a handler.  reads: the tables its transactions touched, in order;
\* decoded: jwt.decode returned a payload (decoded_token is bound);
\* expired_deleted, old_deleted: the session_ids the two DELETEs of
\* _remove_old_sessions_if_needed returned; after_logout: the request arrived
\* right after a logout carrying the same access token had returned; repeat:
\* the request arrived right after the same check_jwt request was answered 200;
\* refused: it arrived right after the same check_jwt request was answered 401
\* or 403;
\* store_failed: a statement of the handler's transaction raised, or the
\* session could not be opened; logs: what the log records written while the
\* request was served contain.
NoLogs == [tokens |-> {}, password_hashes |-> {}]

NoLoc == [user_id |-> "", iat |-> 0, access_token |-> NoToken, refresh_token |-> NoToken,
          t0 |-> 0, reads |-> <<>>, decoded |-> FALSE, expired_deleted |-> {},
          old_deleted |-> {}, active_count |-> 0, after_logout |-> FALSE,
          repeat |-> FALSE, refused |-> FALSE, store_failed |-> FALSE, logs |-> NoLogs]

NoLast == [req |-> NoReq, loc |-> NoLoc, resp |-> NoResp]

VARIABLES
  now,          \* the clock: datetime.now() in Python, NOW() in SQL
  sessions,     \* table sessions: a set of rows
  nextId,       \* next session_id / insertion order
  ledger,       \* table revoked_tokens: rows [token_hash, user_id]
  privateKey,   \* JWTService._private_key (0 = None)
  publicKey,    \* JWTService._public_key (0 = None)
  nkeys,        \* key pairs generated so far
  issued,       \* tokens in clients' hands: the pairs of the sessions created so far
  nauth,        \* Authenticate requests and create_session calls received so far
  nreq,         \* other requests received so far
  pc,           \* per worker: position in its handler
  req,          \* per worker: inputs of the request it is handling
  loc,          \* per worker: locals of its handler
  last          \* the request that finished most recently: inputs, final
                \* locals, response

\* State of the start-up services of create_app.
VARIABLES
  migration_files,     \* MIGRATIONS_DIR: per file name its content, 0 = no such file
  applied_migrations,  \* table applied_migrations: rows [name, checksum] ORDER BY id
  schema,              \* per migration: how many times its statements were committed
  run,                 \* the run_migrations / check_migrations_status call: position,
                       \* locals, outcome
  wait,                \* the wait_for_database_connection call: position, locals, outcome
  config_file,         \* configurations/config.json as it is on disk
  config               \* ConfigReader: _config, _last_loaded, outcome of the last call

authVars == <<now, sessions, nextId, ledger, privateKey, publicKey, nkeys, issued,
              nauth, nreq, pc, req, loc, last>>

startupVars == <<migration_files, applied_migrations, schema, run, wait,
                 config_file, config>>

vars == <<now, sessions, nextId, ledger, privateKey, publicKey, nkeys, issued,
          nauth, nreq, pc, req, loc, last,
          migration_files, applied_migrations, schema, run, wait,
          config_file, config>>

\* revoked_tokens is only read under src/ (the one INSERT, in logout, never
\* commits), so its content is an input: empty, or these rows.
LedgerSeed ==
  { [token_hash |-> SHA256(Token("u1", 0, AccessExpires, "access", 1)), user_id |-> "u1"],
    [token_hash |-> SHA256(Token("u1", 0, RefreshExpires, "refresh", 1)), user_id |-> "u1"] }

\* ------------------------------------------------- start-up: initial values
\* Migration files are named by their three-digit prefix; a file's content is
\* one of its versions.
MigrationNames == 1..MaxFiles
NoFile == 0
FileContents == {1, 2}

\* No run_migrations or check_migrations_status call was made yet.
\* listed: the files as listed when the run started; attempted: the files
\* handed to apply_migration in this run; applied_now: those it committed;
\* executed: the statements the last apply_migration executed before it
\* returned or raised.
NoRun ==
  [pc |-> "idle", op |-> "none", applied |-> [n \in {} |-> 0], todo |-> <<>>,
   listed |-> <<>>, attempted |-> <<>>, applied_now |-> <<>>, executed |-> 0,
   result |-> "none", runs |-> 0]

\* The repository's migrations directory and a database without the table
\* applied_migrations, which check_migrations_table creates empty.
MigrationIdle ==
  /\ migration_files = [n \in MigrationNames |-> IF n <= 2 THEN 1 ELSE NoFile]
  /\ applied_migrations = <<>>
  /\ schema = [n \in MigrationNames |-> 0]
  /\ run = NoRun

\* No wait_for_database_connection call was made yet.  retry_count is the
\* loop variable (`retry_count` in app.py, `attempt` in database_utils.py);
\* attempts and sleeps count the connection attempts and the time.sleep calls
\* of the call; connected: the last attempt succeeded; slept: time.sleep was
\* the last thing the call did.
NoWait ==
  [pc |-> "idle", impl |-> "none", max_retries |-> 0, retry_count |-> 0,
   attempts |-> 0, sleeps |-> 0, connected |-> FALSE, slept |-> FALSE,
   result |-> "none", calls |-> 0]

WaitIdle == wait = NoWait

\* What is on disk at the path of config.json: a file that cannot be opened,
\* text that is not JSON, or JSON text whose root is an object (with value v
\* under its keys), an array or a number.
ConfigFile(kind, v) == [kind |-> kind, v |-> v]
ConfigFiles ==
  {ConfigFile("unreadable", 0), ConfigFile("malformed", 0), ConfigFile("array", 0),
   ConfigFile("number", 0), ConfigFile("object", 1), ConfigFile("object", 2)}

\* Result of ConfigReader.get: a value, or KeyError.
Served(ok, v) == [ok |-> ok, v |-> v]

\* _init_config loaded the first version of config.json.  loaded: the value
\* of the last _load_config that returned; served: the outcome of the last
\* get; result: the outcome of the last reload.
ConfigIdle ==
  /\ config_file = ConfigFile("object", 1)
  /\ config = [_config |-> ConfigFile("object", 1), _last_loaded |-> 0,
               loaded |-> ConfigFile("object", 1), served |-> Served(TRUE, 1),
               result |-> "ok", reloads |-> 0]

StartupIdle == MigrationIdle /\ WaitIdle /\ ConfigIdle

Init ==
  /\ StartupIdle
  /\ now = 0
  /\ sessions = {}
  /\ nextId = 1
  /\ ledger \in {{}, LedgerSeed}
  /\ privateKey = 0
  /\ publicKey = 0
  /\ nkeys = 0
  /\ issued = {}
  /\ nauth = 0
  /\ nreq = 0
  /\ pc = [p \in Procs |-> "idle"]
  /\ req = [p \in Procs |-> NoReq]
  /\ loc = [p \in Procs |-> NoLoc]
  /\ last = NoLast

\* ------------------------------------------------------------------ clock
Tick(bound) ==
  /\ now < bound
  /\ now' = now + 1
  /\ UNCHANGED <<sessions, nextId, ledger, privateKey, publicKey, nkeys, issued,
                 nauth, nreq, pc, req, loc, last>>
  /\ UNCHANGED startupVars

\* ---------------------------------------------------------------- logging
\* maintenance/logger.py: `LOG_LEVEL = logging.INFO`, `logger.setLevel(LOG_LEVEL)`:
\* a record of this level is written.
Levels == <<"debug", "info", "warning", "error", "critical">>
LOG_LEVEL == "info"
LevelNo(level) == CHOOSE i \in 1..Len(Levels) : Levels[i] = level
Written(level) == LevelNo(level) >= LevelNo(LOG_LEVEL)

\* app.py, before_request hook log_request_info and after_request hook
\* log_request_response: `Headers: {dict(request.headers)}` at level info.
\* check_jwt and logout receive their tokens in the headers access-token and
\* refresh-token.
HeadersLogged(r) ==
  IF Written("info") /\ r.op \in {"check", "logout"}
    THEN {r.access_token, r.refresh_token} \ {NoToken}
    ELSE {}

\* app.py, log_request_response: `Request Body: {request_body}` at level
\* info, and local_auth.py: `logger.debug(... json.dumps(data) ...)`.  The
\* body of a local_auth request holds auth.login and auth.password, the
\* password hash.
BodyLogged(r) ==
  IF (Written("info") \/ Written("debug")) /\ r.op = "auth"
    THEN {r.password} \ {""}
    ELSE {}

\* What the log records written while request r was served contain.
LogRecords(r) ==
  IF r.op = "create_session" THEN NoLogs
  ELSE [tokens |-> HeadersLogged(r), password_hashes |-> BodyLogged(r)]

\* --------------------------------------------------------- request frames
\* Workers are interchangeable: a request goes to the first idle one.
Free(p) ==
  /\ pc[p] = "idle"
  /\ \A q \in Procs : q < p => pc[q] # "idle"

\* What stays on record of a finished handler's locals.
Record(l) ==
  [NoLoc EXCEPT !.reads = l.reads, !.decoded = l.decoded,
                !.expired_deleted = l.expired_deleted, !.old_deleted = l.old_deleted,
                !.active_count = l.active_count, !.after_logout = l.after_logout,
                !.repeat = l.repeat, !.refused = l.refused,
                !.store_failed = l.store_failed]

\* Begin(p, r, l, next): the first idle worker, p, takes request r with
\* locals l and goes on to next.
Begin(p, r, l, next) ==
  /\ Free(p)
  /\ req' = [req EXCEPT ![p] = r]
  /\ loc' = [loc EXCEPT ![p] = l]
  /\ pc' = [pc EXCEPT ![p] = next]
  /\ UNCHANGED last
  /\ UNCHANGED startupVars

\* Reject(p, r, rsp): the first idle worker, p, takes request r and answers
\* rsp at once.
Reject(p, r, rsp) ==
  /\ Free(p)
  /\ last' = [req |-> r, loc |-> [NoLoc EXCEPT !.logs = LogRecords(r)], resp |-> rsp]
  /\ UNCHANGED <<pc, req, loc>>
  /\ UNCHANGED startupVars

\* Goto(p, l, next): the handler of worker p goes on to next with locals l.
Goto(p, l, next) ==
  /\ pc' = [pc EXCEPT ![p] = next]
  /\ loc' = [loc EXCEPT ![p] = l]
  /\ UNCHANGED <<req, last>>
  /\ UNCHANGED startupVars

\* Finish(p, l, rsp): the handler of worker p returns rsp, its locals being l.
Finish(p, l, rsp) ==
  /\ pc' = [pc EXCEPT ![p] = "idle"]
  /\ req' = [req EXCEPT ![p] = NoReq]
  /\ loc' = [loc EXCEPT ![p] = NoLoc]
  /\ last' = [req |-> req[p], loc |-> [Record(l) EXCEPT !.logs = LogRecords(req[p])],
              resp |-> rsp]
  /\ UNCHANGED startupVars

\* Touch(l, table): locals l after a transaction on table was opened.
Touch(l, table) == [l EXCEPT !.reads = Append(@, table)]

BadRequest == Resp(400, "bad_request")

\* A handler that answers success where its `except Exception` stands.
ErrorSwallowed == Resp(200, "error")

\* `except Exception as e:` of the handlers: the 500 response.
ServerError == Resp(500, "error")

\* Failed(l): locals l after a store call raised.
Failed(l) == [l EXCEPT !.store_failed = TRUE]

\* A check_jwt that goes to the ledger before decoding the token.
AfterKeysStoreFirst(p) == IF req[p].op = "auth" THEN "auth_sign" ELSE "check_ledger"

\* ------------------------------------------- JWTService._generate_keys
\* Where a handler goes once _get_private_key_pem / _get_public_key_pem has
\* called _generate_keys.
AfterKeys(p) == IF req[p].op = "auth" THEN "auth_sign" ELSE "check_decode"

\* `if cls._private_key is None`
KeysCheck(p) ==
  /\ pc[p] = "keys_check"
  /\ Goto(p, loc[p], IF privateKey = 0 THEN "keys_priv" ELSE AfterKeys(p))
  /\ UNCHANGED <<now, sessions, nextId, ledger, privateKey, publicKey, nkeys, issued, nauth, nreq>>

\* `cls._private_key = rsa.generate_private_key(...)`
KeysPriv(p) ==
  /\ pc[p] = "keys_priv"
  /\ nkeys' = nkeys + 1
  /\ privateKey' = nkeys + 1
  /\ Goto(p, loc[p], "keys_pub")
  /\ UNCHANGED <<now, sessions, nextId, ledger, publicKey, issued, nauth, nreq>>

\* `cls._public_key = cls._private_key.public_key()`
KeysPub(p) ==
  /\ pc[p] = "keys_pub"
  /\ publicKey' = privateKey
  /\ Goto(p, loc[p], AfterKeys(p))
  /\ UNCHANGED <<now, sessions, nextId, ledger, privateKey, nkeys, issued, nauth, nreq>>

\* A subject check that accepts every declared user_id.
SubjectUnchecked(tok, uid) == TRUE

\* ------------------------------------------------------------- check_jwt
\* `str(decoded_token.get('user_id')) != user_id` is false
SubjectMatches(tok, uid) == tok.user_id = uid

\* An expiry test that takes every token for expired.
IsExpiredAlways(tok, t) == TRUE

\* `current_time > token_exp`
IsExpired(tok, t) == t > tok.exp

\* A ledger lookup that never finds a row.
IsRevokedIgnored(L, tok, uid) == FALSE

\* SELECT 1 FROM revoked_tokens WHERE token_hash = SHA256(:token) AND user_id = :user_id
IsRevoked(L, tok, uid) ==
  \E e \in L : e.token_hash = SHA256(tok) /\ e.user_id = uid

\* A session lookup that never finds a row.
HasRefreshSessionNever(S, tok, uid, t) == FALSE

\* A session lookup that accepts any non-expired session of the user.
HasRefreshSessionAnyToken(S, tok, uid, t) ==
  \E s \in S : s.user_id = uid /\ s.expires_at > t

\* SELECT 1 FROM sessions WHERE user_id = :user_id
\*   AND refresh_token_hash = SHA256(:refresh_token) AND expires_at > NOW()
\* with :refresh_token bound to the presented access-token header.
HasRefreshSession(S, tok, uid, t) ==
  \E s \in S : /\ s.user_id = uid
               /\ s.refresh_token_hash = SHA256(tok)
               /\ s.expires_at > t

Forged == [Resp(403, "forged") EXCEPT !.token_valid = FALSE, !.refresh = FALSE]
Valid == [Resp(200, "valid") EXCEPT !.token_valid = TRUE]
Revoked == [Resp(401, "revoked") EXCEPT !.token_valid = FALSE, !.refresh = FALSE]
Refreshable == [Resp(401, "refreshable") EXCEPT !.token_valid = FALSE, !.refresh = TRUE]
NonRefreshable == [Resp(401, "non_refreshable") EXCEPT !.token_valid = FALSE, !.refresh = FALSE]

\* TRUE iff the request that finished last was a logout carrying this access
\* token and a refresh token.
LogoutReturned(tok) ==
  /\ last.req.op = "logout"
  /\ last.req.access_token = tok
  /\ last.resp.code # 400

\* TRUE iff the request that finished last was this check_jwt request and was
\* answered 200.
CheckRepeated(tok, uid) ==
  /\ last.req.op = "check"
  /\ last.req.access_token = tok
  /\ last.req.user_id = uid
  /\ last.resp.code = 200

\* TRUE iff the request that finished last was this check_jwt request and was
\* answered forged, expired or revoked.
CheckRefused(tok, uid) ==
  /\ last.req.op = "check"
  /\ last.req.access_token = tok
  /\ last.req.user_id = uid
  /\ last.resp.code \in {401, 403}

\* Headers read; 400 when one is missing, else on to _get_public_key_pem().
\* budget bounds the requests of a run other than Authenticate.
CheckRequest(p, tok, uid, budget) ==
  /\ IF tok = NoToken \/ uid = ""
       THEN Reject(p, [NoReq EXCEPT !.op = "check", !.access_token = tok, !.user_id = uid],
                   BadRequest)
       ELSE Begin(p, [NoReq EXCEPT !.op = "check", !.access_token = tok, !.user_id = uid],
                  [NoLoc EXCEPT !.after_logout = LogoutReturned(tok),
                                !.repeat = CheckRepeated(tok, uid),
                                !.refused = CheckRefused(tok, uid)],
                  "keys_check")
  /\ nreq < budget
  /\ nreq' = nreq + 1
  /\ UNCHANGED <<now, sessions, nextId, ledger, privateKey, publicKey, nkeys, issued, nauth>>

\* The in-memory part of check_jwt once _generate_keys has returned: read
\* _public_key (None raises AttributeError: 500), decode, compare the subject,
\* read the clock, compare with exp.
CheckDecode(p) ==
  /\ pc[p] = "check_decode"
  /\ LET tok == req[p].access_token
         uid == req[p].user_id
         dec == [loc[p] EXCEPT !.decoded = TRUE] IN
       IF publicKey = 0 THEN Finish(p, loc[p], ServerError)
       ELSE IF ~DecodeOk(tok, publicKey) THEN Finish(p, loc[p], Forged)
       ELSE IF ~SubjectMatches(tok, uid) THEN Finish(p, dec, Forged)
       ELSE IF IsExpired(tok, now) THEN Goto(p, dec, "check_ledger")
       ELSE Finish(p, dec, Valid)
  /\ UNCHANGED <<now, sessions, nextId, ledger, privateKey, publicKey, nkeys, issued, nauth, nreq>>

\* A revocation lookup that removes the rows it finds from the ledger.
CheckLedgerPurging(p) ==
  /\ pc[p] = "check_ledger"
  /\ LET l == Touch(loc[p], "revoked_tokens")
         found == {e \in ledger : /\ e.token_hash = SHA256(req[p].access_token)
                                  /\ e.user_id = req[p].user_id} IN
       /\ ledger' = ledger \ found
       /\ IF found # {} THEN Finish(p, l, Revoked) ELSE Goto(p, l, "check_session")
  /\ UNCHANGED <<now, sessions, nextId, privateKey, publicKey, nkeys, issued, nauth, nreq>>

\* A revocation lookup that adds the looked-up token to the ledger.
CheckLedgerRecording(p) ==
  /\ pc[p] = "check_ledger"
  /\ ledger' = ledger \cup {[token_hash |-> SHA256(req[p].access_token),
                              user_id |-> req[p].user_id]}
  /\ Goto(p, Touch(loc[p], "revoked_tokens"), "check_session")
  /\ UNCHANGED <<now, sessions, nextId, privateKey, publicKey, nkeys, issued, nauth, nreq>>

\* First `with get_db_session()` of check_jwt: the revocation lookup.
CheckLedger(p) ==
  /\ pc[p] = "check_ledger"
  /\ \E ok \in BOOLEAN :
       LET l == Touch(loc[p], "revoked_tokens") IN
       IF ~ok THEN Finish(p, Failed(l), ServerError)
       ELSE IF IsRevoked(ledger, req[p].access_token, req[p].user_id)
         THEN Finish(p, l, Revoked)
         ELSE Goto(p, l, "check_session")
  /\ UNCHANGED <<now, sessions, nextId, ledger, privateKey, publicKey, nkeys, issued, nauth, nreq>>

\* Second `with get_db_session()` of check_jwt: the session lookup.
CheckSession(p) ==
  /\ pc[p] = "check_session"
  /\ \E ok \in BOOLEAN :
       LET l == Touch(loc[p], "sessions") IN
       IF ~ok THEN Finish(p, Failed(l), ServerError)
       ELSE IF HasRefreshSession(sessions, req[p].access_token, req[p].user_id, now)
         THEN Finish(p, l, Refreshable)
         ELSE Finish(p, l, NonRefreshable)
  /\ UNCHANGED <<now, sessions, nextId, ledger, privateKey, publicKey, nkeys, issued, nauth, nreq>>

\* ------------------------------------------------------------ local_auth
\* Input validation of local_auth: 400 when login or password is empty,
\* else on to AuthService.get_user_by_credentials.  budget bounds the
\* Authenticate requests of a run.
AuthRequest(p, login, password, budget) ==
  /\ IF login = "" \/ password = ""
       THEN Reject(p, [NoReq EXCEPT !.op = "auth", !.login = login, !.password = password],
                   BadRequest)
       ELSE Begin(p, [NoReq EXCEPT !.op = "auth", !.login = login, !.password = password],
                  NoLoc, "auth_lookup")
  /\ nauth < budget
  /\ nauth' = nauth + 1
  /\ UNCHANGED <<now, sessions, nextId, ledger, privateKey, publicKey, nkeys, issued, nreq>>

\* A comparison that accepts every hash.
VerifyPasswordAlways(input_hash, stored_hash) == TRUE

\* AuthService.verify_password
VerifyPassword(input_hash, stored_hash) == input_hash = stored_hash

\* `if not user:` 403 with body.message "Неверные учетные данные"
UserNotFound == [Resp(403, "auth_failed") EXCEPT !.message = "invalid_credentials"]

\* A 403 whose message tells that the login exists.
PasswordMismatchTold == [Resp(403, "auth_failed") EXCEPT !.message = "wrong_password"]

\* `if not AuthService.verify_password(...)`: 403 with body.message
\* "Неверные учетные данные"
PasswordMismatch == [Resp(403, "auth_failed") EXCEPT !.message = "invalid_credentials"]

\* get_user_by_credentials (one transaction), verify_password, and the clock
\* read that opens generate_tokens.
AuthLookup(p) ==
  /\ pc[p] = "auth_lookup"
  /\ \E ok \in BOOLEAN :
       LET login == req[p].login
           l == Touch(loc[p], "users") IN
       IF ~ok THEN Finish(p, Failed(l), ServerError)
       ELSE IF login \notin DOMAIN UsersTable THEN Finish(p, l, UserNotFound)
       ELSE IF ~VerifyPassword(req[p].password, UsersTable[login].password_hash)
         THEN Finish(p, l, PasswordMismatch)
       ELSE Goto(p, [l EXCEPT !.user_id = UsersTable[login].user_id, !.iat = now],
                 "keys_check")
  /\ UNCHANGED <<now, sessions, nextId, ledger, privateKey, publicKey, nkeys, issued, nauth, nreq>>

\* generate_tokens after _generate_keys: _get_private_key_pem returns the key,
\* then the argument of the "Кодирование токенов" log call is evaluated:
\* json.dumps(access_payload), whose 'exp' and 'iat' are datetime objects,
\* raises TypeError.  generate_tokens logs and re-raises it before jwt.encode
\* is reached, and the `except Exception` of local_auth answers 500.
AuthSign(p) ==
  /\ pc[p] = "auth_sign"
  /\ Finish(p, loc[p], ServerError)
  /\ UNCHANGED <<now, sessions, nextId, ledger, privateKey, publicKey, nkeys, issued, nauth, nreq>>

\* ------------------------------ JWTService._remove_old_sessions_if_needed
UserRows(S, u) == {s \in S : s.user_id = u}

\* A cleanup that deletes the expired rows of every user.
ExpiredRowsAllUsers(S, u, t) == {s \in S : s.expires_at <= t}

\* A cleanup that deletes no expired row.
ExpiredRowsNone(S, u, t) == {}

\* DELETE FROM sessions WHERE user_id = :user_id AND expires_at <= NOW()
ExpiredRows(S, u, t) == {s \in S : s.user_id = u /\ s.expires_at <= t}

\* An eviction of one row whatever the count.
DeleteCountOne(active_count) == 1

\* `delete_count = active_count - cls._max_sessions + 1`
DeleteCount(active_count) == active_count - MaxSessions + 1

\* An eviction query that takes the newest rows.
NewestRows(S, u, n) ==
  {D \in SUBSET UserRows(S, u) :
     /\ Cardinality(D) = IF n < Cardinality(UserRows(S, u)) THEN n
                         ELSE Cardinality(UserRows(S, u))
     /\ \A d \in D : \A s \in UserRows(S, u) \ D : d.created_at >= s.created_at}

\* The row sets that `SELECT session_id FROM sessions WHERE user_id = :user_id
\* ORDER BY created_at ASC LIMIT :limit` can return: n rows (all, if fewer)
\* none of which is newer than a row left out.  Rows with equal created_at
\* come in an order SQL leaves open.
OldestRows(S, u, n) ==
  {D \in SUBSET UserRows(S, u) :
     /\ Cardinality(D) = IF n < Cardinality(UserRows(S, u)) THEN n
                         ELSE Cardinality(UserRows(S, u))
     /\ \A d \in D : \A s \in UserRows(S, u) \ D : d.created_at <= s.created_at}

Ids(R) == {s.session_id : s \in R}

\* The transaction of _remove_old_sessions_if_needed, committed when its
\* `with` block ends, and the clock read of create_session that follows it.
AuthCleanup(p) ==
  /\ pc[p] = "auth_cleanup"
  /\ \E ok \in BOOLEAN :
       LET u == loc[p].user_id
           expired == ExpiredRows(sessions, u, now)
           kept == sessions \ expired
           cnt == Cardinality(UserRows(kept, u))
           l == [Touch(loc[p], "sessions") EXCEPT !.expired_deleted = Ids(expired),
                                                  !.active_count = cnt,
                                                  !.t0 = now] IN
       IF ~ok
         THEN /\ Finish(p, Failed(Touch(loc[p], "sessions")), ServerError)
              /\ UNCHANGED sessions
       ELSE IF cnt >= MaxSessions
         THEN \E D \in OldestRows(kept, u, DeleteCount(cnt)) :
                /\ sessions' = kept \ D
                /\ Goto(p, [l EXCEPT !.old_deleted = Ids(D)], "auth_insert")
         ELSE /\ sessions' = kept
              /\ Goto(p, l, "auth_insert")
  /\ UNCHANGED <<now, nextId, ledger, privateKey, publicKey, nkeys, issued, nauth, nreq>>

\* ------------------------------------------------ JWTService.create_session
\* The hash of the access token in place of the refresh token's.
RefreshTokenHashOfAccess(tokens) == SHA256(tokens.access_token)

\* hashlib.sha256(tokens['refresh_token'].encode()).hexdigest()
RefreshTokenHash(tokens) == SHA256(tokens.refresh_token)

\* The key whose signature the token pairs handed to create_session carry.
PairKey == 1

\* The part of the flow that follows generate_tokens, entered on its own with
\* a token pair of user u as `tokens` (generate_tokens itself never returns
\* one): the pair that generate_tokens describes for the present second.
\* budget bounds the Authenticate requests and create_session calls of a run.
CreateSession(p, u, budget) ==
  /\ LET a == Token(u, now, AccessExpires, "access", PairKey)
         r == Token(u, now, RefreshExpires, "refresh", PairKey) IN
       Begin(p, [NoReq EXCEPT !.op = "create_session", !.user_id = u,
                              !.access_token = a, !.refresh_token = r],
             [NoLoc EXCEPT !.user_id = u, !.iat = now,
                           !.access_token = a, !.refresh_token = r],
             "auth_cleanup")
  /\ nauth < budget
  /\ nauth' = nauth + 1
  /\ UNCHANGED <<now, sessions, nextId, ledger, privateKey, publicKey, nkeys, issued, nreq>>

\* A create_session whose caller hands the token pair out although the INSERT
\* failed.
AuthInsertLeaky(p) ==
  /\ pc[p] = "auth_insert"
  /\ issued' = issued \cup {loc[p].access_token, loc[p].refresh_token}
  /\ Finish(p, Failed(Touch(loc[p], "sessions")), ServerError)
  /\ UNCHANGED <<now, sessions, nextId, ledger, privateKey, publicKey, nkeys, nauth, nreq>>

\* The INSERT transaction of create_session, after which the token pair is in
\* a client's hands.  expires_at was computed from a clock read between the end of
\* the cleanup transaction and this one; created_at is the database's NOW().
AuthInsert(p) ==
  /\ pc[p] = "auth_insert"
  /\ \E ok \in BOOLEAN :
       LET l == Touch(loc[p], "sessions") IN
       IF ~ok
         THEN /\ Finish(p, Failed(l), ServerError)
              /\ UNCHANGED <<sessions, nextId, issued>>
         ELSE \E t \in loc[p].t0..now :
                /\ sessions' = sessions \cup
                     {[session_id |-> nextId,
                       user_id |-> loc[p].user_id,
                       access_token |-> loc[p].access_token,
                       refresh_token_hash |-> RefreshTokenHash(loc[p]),
                       created_at |-> now,
                       expires_at |-> t + RefreshExpires]}
                /\ nextId' = nextId + 1
                /\ issued' = issued \cup {loc[p].access_token, loc[p].refresh_token}
                /\ Finish(p, l, Resp(200, "session_created"))
  /\ UNCHANGED <<now, ledger, privateKey, publicKey, nkeys, nauth, nreq>>

\* ----------------------------------------------------------------- logout
\* Token pairs a client sends to logout: a pair issued together, or junk.
LogoutPairs ==
  {pr \in issued \X issued :
     /\ pr[1].type = "access" /\ pr[2].type = "refresh"
     /\ pr[1].user_id = pr[2].user_id /\ pr[1].iat = pr[2].iat /\ pr[1].key = pr[2].key}
  \cup {<<Garbage, Garbage>>, <<NoToken, NoToken>>}

\* A logout whose INSERT stays in the ledger although the handler answers 500.
LogoutPartial(p, a, r) ==
  /\ Free(p)
  /\ LET rq == [NoReq EXCEPT !.op = "logout", !.access_token = a, !.refresh_token = r] IN
       IF a = NoToken \/ r = NoToken
         THEN /\ last' = [req |-> rq, loc |-> [NoLoc EXCEPT !.logs = LogRecords(rq)],
                          resp |-> BadRequest]
              /\ UNCHANGED ledger
         ELSE /\ last' = [req |-> rq,
                          loc |-> [NoLoc EXCEPT !.logs = LogRecords(rq),
                                                !.reads = <<"revoked_tokens">>],
                          resp |-> ServerError]
              /\ ledger' = ledger \cup {[token_hash |-> SHA256(a), user_id |-> a.user_id],
                                         [token_hash |-> SHA256(r), user_id |-> r.user_id]}
  /\ nreq < MaxRequests
  /\ nreq' = nreq + 1
  /\ UNCHANGED <<now, sessions, nextId, privateKey, publicKey, nkeys, issued, nauth, pc, req, loc>>
  /\ UNCHANGED startupVars

\* logout: 400 when a header is missing.  Otherwise one `with get_db_session()`
\* block: it executes INSERT INTO revoked_tokens and then evaluates
\* `jwt.decode(...)`; logout.py imports neither jwt nor config, so this raises
\* NameError (and so does the `except jwt.InvalidTokenError` clause).  Whether
\* the INSERT raised (~ok) or the NameError did, get_db_session rolls the
\* transaction back and the handler's `except Exception` answers 500: no row
\* of this logout stays in the ledger and the DELETE is never executed.
Logout(p, a, r) ==
  /\ Free(p)
  /\ LET rq == [NoReq EXCEPT !.op = "logout", !.access_token = a, !.refresh_token = r] IN
       IF a = NoToken \/ r = NoToken
         THEN last' = [req |-> rq, loc |-> [NoLoc EXCEPT !.logs = LogRecords(rq)],
                       resp |-> BadRequest]
         ELSE \E ok \in BOOLEAN :
                last' = [req |-> rq,
                         loc |-> [NoLoc EXCEPT !.logs = LogRecords(rq),
                                               !.reads = <<"revoked_tokens">>,
                                               !.store_failed = ~ok],
                         resp |-> ServerError]
  /\ nreq < MaxRequests
  /\ nreq' = nreq + 1
  /\ UNCHANGED <<now, sessions, nextId, ledger, privateKey, publicKey, nkeys, issued, nauth,
                 pc, req, loc>>
  /\ UNCHANGED startupVars

\* ------------------------------------------------------------------- spec
\* Credentials a client sends: right ones, a wrong hash, an unknown login, an
\* empty field.
Credentials ==
  {<<"alice", "h1">>, <<"bob", "h2">>, <<"alice", "h2">>, <<"ghost", "h1">>, <<"", "h1">>}

\* Header pairs a client sends to check_jwt.
CheckInputs ==
  ((issued \cup ForeignTokens \cup {Garbage}) \X UserIds)
    \cup {<<NoToken, "u1">>, <<Garbage, "">>}

Next ==
  \/ Tick(MaxTime)
  \/ \E p \in Procs :
       \/ \E c \in Credentials : AuthRequest(p, c[1], c[2], MaxAuths)
       \/ AuthLookup(p)
       \/ KeysCheck(p)
       \/ KeysPriv(p)
       \/ KeysPub(p)
       \/ AuthSign(p)
       \/ \E u \in UserIds : CreateSession(p, u, MaxAuths)
       \/ AuthCleanup(p)
       \/ AuthInsert(p)
       \/ \E c \in CheckInputs : CheckRequest(p, c[1], c[2], MaxRequests)
       \/ CheckDecode(p)
       \/ CheckLedger(p)
       \/ CheckSession(p)
       \/ \E pr \in LogoutPairs : Logout(p, pr[1], pr[2])

Spec == Init /\ [][Next]_vars

\* Session admission alone: every request is a create_session for u1.
NextAdmission ==
  \/ Tick(MaxAdmissionTime)
  \/ \E p \in Procs :
       \/ CreateSession(p, "u1", MaxAdmissions)
       \/ AuthCleanup(p)
       \/ AuthInsert(p)

SpecAdmission == Init /\ [][NextAdmission]_vars

\* Access tokens of u1 signed with a private key this process has generated,
\* valid for the whole run.
KeyTokens == {Token("u1", 0, MaxTime, "access", k) : k \in 1..nkeys}

\* Token checks alone: every request is a check_jwt for u1, of a token signed
\* with a key of this process or with a foreign key.
NextKeys ==
  \E p \in Procs :
    \/ \E tok \in KeyTokens \cup ForeignTokens : CheckRequest(p, tok, "u1", MaxChecks)
    \/ KeysCheck(p)
    \/ KeysPriv(p)
    \/ KeysPub(p)
    \/ CheckDecode(p)

SpecKeys == Init /\ [][NextKeys]_vars

\* Sequential session admission: a create_session for u1 is called only after
\* the one before it has returned.
NextSequential ==
  \/ Tick(MaxTime)
  \/ \E p \in Procs :
       \/ /\ \A q \in Procs : pc[q] = "idle"
          /\ CreateSession(p, "u1", MaxAdmissions)
       \/ AuthCleanup(p)
       \/ AuthInsert(p)

SpecSequential == Init /\ [][NextSequential]_vars

\* The row create_session inserts at time c for the pair generate_tokens
\* describes for user u at that time.
StoredRow(id, u, c) ==
  [session_id |-> id,
   user_id |-> u,
   access_token |-> Token(u, c, AccessExpires, "access", PairKey),
   refresh_token_hash |-> SHA256(Token(u, c, RefreshExpires, "refresh", PairKey)),
   created_at |-> c,
   expires_at |-> c + RefreshExpires]

\* Stores that concurrent creations leave behind (C1): more than max_sessions
\* sessions of u1, created at time 0 or 1 in the order of their ids, and one
\* session of u2.
OverfullStores ==
  {{StoredRow(i, "u1", f[i]) : i \in 1..n} \cup {StoredRow(n + 1, "u2", c)} :
     n \in {MaxSessions + 1, MaxSessions + 2}, c \in 0..1,
     f \in {g \in [1..(MaxSessions + 2) -> 0..1] :
              \A i, j \in 1..(MaxSessions + 2) : i < j => g[i] <= g[j]}}

InitOverfull ==
  /\ StartupIdle
  /\ now = 1
  /\ sessions \in OverfullStores
  /\ nextId = Cardinality(sessions) + 1
  /\ ledger = {}
  /\ privateKey = 0
  /\ publicKey = 0
  /\ nkeys = 0
  /\ issued = UNION {{Token(s.user_id, s.created_at, AccessExpires, "access", PairKey),
                       Token(s.user_id, s.created_at, RefreshExpires, "refresh", PairKey)} :
                      s \in sessions}
  /\ nauth = 0
  /\ nreq = 0
  /\ pc = [p \in Procs |-> "idle"]
  /\ req = [p \in Procs |-> NoReq]
  /\ loc = [p \in Procs |-> NoLoc]
  /\ last = NoLast

\* Sequential session admission on a store that holds too many sessions.
SpecOverfull == InitOverfull /\ [][NextSequential]_vars

\* ------------------------------------------------ maintenance/migration.py
Range(f) == {f[i] : i \in DOMAIN f}

\* sorted(S): the elements of S in ascending order.
RECURSIVE sorted(_)
sorted(S) ==
  IF S = {} THEN <<>>
  ELSE LET m == CHOOSE x \in S : \A y \in S : x <= y IN <<m>> \o sorted(S \ {m})

\* The directory listing in descending order.
get_migration_files_unsorted ==
  LET files == sorted({n \in MigrationNames : migration_files[n] # NoFile})
  IN [i \in 1..Len(files) |-> files[Len(files) + 1 - i]]

\* get_migration_files: the names in MIGRATIONS_DIR, sorted.
get_migration_files == sorted({n \in MigrationNames : migration_files[n] # NoFile})

\* get_applied_migrations: the dict {name: checksum} of the table's rows.
get_applied_migrations ==
  [n \in {r.name : r \in Range(applied_migrations)} |->
     (CHOOSE r \in Range(applied_migrations) : r.name = n).checksum]

\* calculate_checksum: SHA-256 of the bytes of file n.
calculate_checksum(n) == SHA256(migration_files[n])

verify_names_only ==
  \A name \in DOMAIN get_applied_migrations : name \in Range(get_migration_files)

\* verify_applied_migrations returns (TRUE) or raises MigrationError (FALSE).
verify_applied_migrations ==
  LET applied == get_applied_migrations
      files == get_migration_files
  IN \A name \in DOMAIN applied :
       /\ name \in Range(files)
       /\ calculate_checksum(name) = applied[name]

PendingAlways(applied, f) == TRUE

\* `if migration_file not in applied`
Pending(applied, f) == f \notin DOMAIN applied

\* Statements split_sql_statements finds in a migration file.
NumStatements == 2

MigrationFrame == UNCHANGED <<authVars, wait, config_file, config>>

\* Between runs a developer adds, edits or removes a migration file.
EditMigrations(n, c) ==
  /\ run.pc = "idle"
  /\ migration_files[n] # c
  /\ migration_files' = [migration_files EXCEPT ![n] = c]
  /\ UNCHANGED <<applied_migrations, schema, run>>
  /\ MigrationFrame

\* check_migrations_status: False when the session, the table check or the
\* verification raised (ok = FALSE: the database did) or a file is pending.
CheckMigrationsStatus ==
  /\ run.pc = "idle"
  /\ run.runs < MaxRuns
  /\ \E ok \in BOOLEAN :
       LET pending == Range(get_migration_files) \ DOMAIN get_applied_migrations IN
       run' = [NoRun EXCEPT !.op = "status", !.runs = run.runs + 1,
                            !.result = IF ok /\ verify_applied_migrations /\ pending = {}
                                         THEN "True" ELSE "False"]
  /\ UNCHANGED <<migration_files, applied_migrations, schema>>
  /\ MigrationFrame

\* run_migrations up to its loop: check_migrations_table,
\* verify_applied_migrations, then `applied` and the file list are read.
RunMigrations ==
  /\ run.pc = "idle"
  /\ run.runs < MaxRuns
  /\ \E ok \in BOOLEAN :
       IF ok /\ verify_applied_migrations
         THEN run' = [NoRun EXCEPT !.pc = "loop", !.op = "run", !.runs = run.runs + 1,
                                   !.applied = get_applied_migrations,
                                   !.todo = get_migration_files,
                                   !.listed = get_migration_files]
         ELSE run' = [NoRun EXCEPT !.op = "run", !.runs = run.runs + 1,
                                   !.result = "MigrationError"]
  /\ UNCHANGED <<migration_files, applied_migrations, schema>>
  /\ MigrationFrame

\* apply_migration(session, f), one transaction.  fail = 0: every statement and
\* the INSERT succeed, unless the name is in the table already (UNIQUE);
\* fail = k: statement k raises; fail = NumStatements + 1: the INSERT or the
\* commit raises.  On a raise the transaction is rolled back and
\* MigrationError ends run_migrations.
apply_migration(f, fail) ==
  LET recorded == f \in {r.name : r \in Range(applied_migrations)}
      stop == IF fail = 0 /\ recorded THEN NumStatements + 1 ELSE fail
  IN IF stop = 0
       THEN /\ schema' = [schema EXCEPT ![f] = @ + 1]
            /\ applied_migrations' =
                 Append(applied_migrations, [name |-> f, checksum |-> calculate_checksum(f)])
            /\ run' = [run EXCEPT !.todo = Tail(@), !.attempted = Append(@, f),
                                  !.applied_now = Append(@, f),
                                  !.executed = NumStatements]
       ELSE /\ UNCHANGED <<schema, applied_migrations>>
            /\ run' = [run EXCEPT !.pc = "idle", !.attempted = Append(@, f),
                                  !.executed = IF stop > NumStatements
                                                 THEN NumStatements ELSE stop - 1,
                                  !.result = "MigrationError"]

\* One iteration of `for migration_file in get_migration_files()`.
RunStep ==
  /\ run.pc = "loop"
  /\ run.todo # <<>>
  /\ LET f == Head(run.todo) IN
       IF Pending(run.applied, f)
         THEN \E fail \in 0..(NumStatements + 1) : apply_migration(f, fail)
         ELSE /\ run' = [run EXCEPT !.todo = Tail(@)]
              /\ UNCHANGED <<schema, applied_migrations>>
  /\ UNCHANGED migration_files
  /\ MigrationFrame

\* The loop is over: get_db_session commits and run_migrations returns, or the
\* commit raises.
RunReturn ==
  /\ run.pc = "loop"
  /\ run.todo = <<>>
  /\ \E ok \in BOOLEAN :
       run' = [run EXCEPT !.pc = "idle", !.result = IF ok THEN "ok" ELSE "MigrationError"]
  /\ UNCHANGED <<migration_files, applied_migrations, schema>>
  /\ MigrationFrame

InitStartup == Init /\ ledger = {}

NextMigration ==
  \/ \E n \in MigrationNames : \E c \in FileContents \cup {NoFile} : EditMigrations(n, c)
  \/ CheckMigrationsStatus
  \/ RunMigrations
  \/ RunStep
  \/ RunReturn

SpecMigration == InitStartup /\ [][NextMigration]_vars

\* ------------------------------------------ wait_for_database_connection
SleepsAlways(count, max_retries) == TRUE

\* `if retry_count < max_retries` (app.py), `if attempt < max_retries`
\* (database_utils.py): time.sleep is called only before another attempt.
SleepsBeforeRetry(count, max_retries) == count < max_retries

\* What a connection attempt does: it succeeds, or raises OperationalError,
\* another SQLAlchemyError, or another exception.
ConnectOutcomes == {"ok", "OperationalError", "SQLAlchemyError", "Exception"}

WaitFrame ==
  UNCHANGED <<authVars, migration_files, applied_migrations, schema, run,
              config_file, config>>

\* The call: max_retries is read from the configuration (or passed), the loop
\* variable is set (retry_count = 0 in app.py, attempt = 1 in
\* database_utils.py).
WaitCall(impl, m) ==
  /\ wait.pc = "idle"
  /\ wait.calls < MaxWaits
  /\ wait' = [NoWait EXCEPT !.pc = "loop", !.impl = impl, !.max_retries = m,
                            !.retry_count = IF impl = "app" THEN 0 ELSE 1,
                            !.calls = wait.calls + 1]
  /\ WaitFrame

\* app.py: one evaluation of `while retry_count < max_retries` and the
\* iteration or the `return False` that follows it.
AppAttempt ==
  /\ wait.pc = "loop"
  /\ wait.impl = "app"
  /\ IF wait.retry_count < wait.max_retries
       THEN \E outcome \in ConnectOutcomes :
              IF outcome = "ok"
                THEN wait' = [wait EXCEPT !.pc = "idle", !.attempts = @ + 1,
                                          !.connected = TRUE, !.slept = FALSE,
                                          !.result = "True"]
                ELSE LET c == wait.retry_count + 1
                         sleep == SleepsBeforeRetry(c, wait.max_retries)
                     IN wait' = [wait EXCEPT !.retry_count = c, !.attempts = @ + 1,
                                             !.sleeps = IF sleep THEN @ + 1 ELSE @,
                                             !.slept = sleep]
       ELSE wait' = [wait EXCEPT !.pc = "idle", !.result = "False"]
  /\ WaitFrame

\* database_utils.py: one step of `for attempt in range(1, max_retries + 1)`
\* and its iteration, or the `return False` after the loop.
UtilsAttempt ==
  /\ wait.pc = "loop"
  /\ wait.impl = "utils"
  /\ IF wait.retry_count <= wait.max_retries
       THEN \E outcome \in ConnectOutcomes :
              CASE outcome = "ok" ->
                     wait' = [wait EXCEPT !.pc = "idle", !.attempts = @ + 1,
                                          !.connected = TRUE, !.slept = FALSE,
                                          !.result = "True"]
                [] outcome = "OperationalError" ->
                     LET sleep == SleepsBeforeRetry(wait.retry_count, wait.max_retries)
                     IN wait' = [wait EXCEPT !.retry_count = @ + 1, !.attempts = @ + 1,
                                             !.sleeps = IF sleep THEN @ + 1 ELSE @,
                                             !.slept = sleep]
                [] OTHER ->
                     wait' = [wait EXCEPT !.pc = "idle", !.attempts = @ + 1,
                                          !.slept = FALSE, !.result = "False"]
       ELSE wait' = [wait EXCEPT !.pc = "idle", !.result = "False"]
  /\ WaitFrame

NextWait ==
  \/ \E impl \in {"app", "utils"} : \E m \in 0..MaxRetries : WaitCall(impl, m)
  \/ AppAttempt
  \/ UtilsAttempt

\* The call runs in the thread that made it: it is never suspended for ever.
SpecWait ==
  InitStartup /\ [][NextWait]_vars /\ WF_vars(AppAttempt) /\ WF_vars(UtilsAttempt)

\* --------------------------------------------- maintenance/read_config.py
ConfigFrame ==
  UNCHANGED <<authVars, migration_files, applied_migrations, schema, run, wait>>

\* config.json is rewritten, replaced or made unreadable.
WriteConfig(c) ==
  /\ c # config_file
  /\ config_file' = c
  /\ UNCHANGED config
  /\ ConfigFrame

\* TRUE iff open() and json.loads() return for this file.
Parses(file) == file.kind \in {"object", "array", "number"}

\* How _load_config ends: open() raises, json.loads raises, len() of a number
\* raises TypeError in the f-string of logger.debug, the isinstance test
\* raises ValueError, or it returns.
LoadOutcome(file) ==
  CASE file.kind = "unreadable" -> "OSError"
    [] file.kind = "malformed" -> "JSONDecodeError"
    [] file.kind = "number" -> "TypeError"
    [] file.kind = "array" -> "ValueError"
    [] OTHER -> "ok"

\* reload (called by on_modified, which swallows its exception): _load_config
\* assigns cls._config and cls._last_loaded as soon as json.loads returned,
\* before it looks at the type of the value.
Reload ==
  /\ config.reloads < MaxReloads
  /\ config' = [config EXCEPT
                  !._config = IF Parses(config_file) THEN config_file ELSE @,
                  !._last_loaded = IF Parses(config_file) THEN @ + 1 ELSE @,
                  !.loaded = IF LoadOutcome(config_file) = "ok" THEN config_file ELSE @,
                  !.result = LoadOutcome(config_file),
                  !.reloads = @ + 1]
  /\ UNCHANGED config_file
  /\ ConfigFrame

\* get(path): the value under the path, KeyError when _config is not a dict.
Get ==
  /\ config' = [config EXCEPT
                  !.served = IF config._config.kind = "object"
                               THEN Served(TRUE, config._config.v)
                               ELSE Served(FALSE, 0)]
  /\ UNCHANGED config_file
  /\ ConfigFrame

NextConfig ==
  \/ \E c \in ConfigFiles : WriteConfig(c)
  \/ Reload
  \/ Get

SpecConfig == InitStartup /\ [][NextConfig]_vars

\* =================================================================== claims
ActiveRows(S, u, t) == {s \in S : s.user_id = u /\ s.expires_at > t}

\* C1: at every instant every user has at most max_sessions non-expired
\* sessions in the store, also when authentications of one user run
\* concurrently.
C1_SessionLimit ==
  \A u \in UserIds : Cardinality(ActiveRows(sessions, u, now)) <= MaxSessions

\* The worker p finishes a check_jwt request in this step.
CheckReturns(p) == req[p].op = "check" /\ pc[p] # "idle" /\ pc'[p] = "idle"

CheckedLast == last.req.op = "check" /\ last.resp.code \notin {0, 400}

\* A session row that makes the token refreshable for the declared user.
Matching(tok, uid) ==
  \E s \in sessions : /\ s.user_id = uid
                      /\ s.refresh_token_hash = <<"sha256", tok>>
                      /\ s.expires_at > now

\* A ledger row for the token and the declared user.
Listed(tok, uid) ==
  \E e \in ledger : e.token_hash = <<"sha256", tok>> /\ e.user_id = uid

NotRefreshable(r) == r.code = 401 /\ ~r.refresh /\ ~r.token_valid

IsForged(r) == r.code = 403 /\ ~r.refresh /\ ~r.token_valid

\* C2: once a logout carrying an issued access token (and its refresh token)
\* has returned, a check of that access token for its owner answers revoked
\* (401, refresh = false), expired or not.
C2_LogoutRevokes ==
  ( /\ CheckedLast
    /\ last.loc.after_logout
    /\ last.req.access_token \in issued
    /\ last.req.access_token.user_id = last.req.user_id
    /\ last.resp.code # 500 )
  => NotRefreshable(last.resp)

\* C3: a check answers refresh = true only if a non-expired session of the
\* declared user holds the hash of the presented token; a check of a
\* signature-valid expired token of the declared user with no such session and
\* no ledger row answers 401 with refresh = false (500 when a lookup fails).
C3_NoRefreshWithoutSession ==
  [][\A p \in Procs : CheckReturns(p) =>
       LET tok == req[p].access_token
           uid == req[p].user_id IN
       /\ last'.resp.refresh => Matching(tok, uid)
       /\ ( /\ last'.loc.decoded
            /\ tok.user_id = uid
            /\ now > tok.exp
            /\ ~Matching(tok, uid)
            /\ ~Listed(tok, uid)
            /\ last'.resp.code # 500 )
          => NotRefreshable(last'.resp)]_vars

\* An expired decoded token went through both lookups and was found not
\* refreshable.
C3_Witness ==
  /\ CheckedLast
  /\ last.loc.decoded
  /\ last.loc.reads = <<"revoked_tokens", "sessions">>
  /\ NotRefreshable(last.resp)
  /\ ~Listed(last.req.access_token, last.req.user_id)

\* C4: session admission is one transaction: no state shows the deletions of
\* a create_session that has not inserted yet, and when the INSERT fails the
\* rows that call deleted are in the store again.
C4_AdmissionAtomic ==
  /\ [](\A p \in Procs :
          pc[p] = "auth_insert" => loc[p].expired_deleted \cup loc[p].old_deleted = {})
  /\ [][\A p \in Procs :
          (pc[p] = "auth_insert" /\ pc'[p] = "idle" /\ last'.resp.code = 500) =>
            \A id \in loc[p].expired_deleted \cup loc[p].old_deleted :
               \E s \in sessions' : s.session_id = id]_vars

\* C5: a create_session that counts active_count >= max_sessions after the
\* cleanup deletes exactly one row for capacity, and none deletes more.
C5_EvictsExactlyOne ==
  \A p \in Procs :
    pc[p] = "auth_insert" =>
      /\ Cardinality(loc[p].old_deleted) <= 1
      /\ loc[p].active_count >= MaxSessions => Cardinality(loc[p].old_deleted) = 1

\* d was created before s; rows created at the same instant are ordered by
\* insertion.
Older(d, s) ==
  \/ d.created_at < s.created_at
  \/ d.created_at = s.created_at /\ d.session_id < s.session_id

\* C6: every row evicted for capacity is older (created_at, then insertion
\* order) than every row of that user left in the store.
C6_EvictsOldest ==
  [][\A p \in Procs :
       (pc[p] = "auth_cleanup" /\ pc'[p] = "auth_insert") =>
         \A d \in {x \in sessions \ sessions' : x.expires_at > now} :
           \A s \in {x \in sessions' : x.user_id = d.user_id} : Older(d, s)]_vars

\* The token does not verify under the public key: it is malformed or it was
\* signed with another key.
BadSignature(tok) == tok.type \notin {"access", "refresh"} \/ tok.key # publicKey

\* The worker p leaves the decode step of check_jwt in this step.
DecodeStep(p) == pc[p] = "check_decode" /\ pc'[p] # "check_decode"

C8_SubjectMismatchForged ==
  [][\A p \in Procs :
       ( /\ DecodeStep(p)
         /\ ~BadSignature(req[p].access_token)
         /\ req[p].access_token.user_id # req[p].user_id ) =>
         /\ pc'[p] = "idle"
         /\ IsForged(last'.resp)]_vars

\* An issued token of one user was presented with the other user's id and
\* answered forged.
C8_Witness ==
  /\ CheckedLast
  /\ last.req.access_token \in issued
  /\ last.loc.decoded
  /\ last.req.access_token.user_id # last.req.user_id
  /\ IsForged(last.resp)

\* The store accesses of a check respect the order of the checks: none before
\* the token verified under a key of this process with the declared subject,
\* and the ledger before the sessions.
OrderedReads(r, l) ==
  /\ l.reads \in {<<>>, <<"revoked_tokens">>, <<"revoked_tokens", "sessions">>}
  /\ l.reads # <<>> =>
       /\ r.access_token.type \in {"access", "refresh"}
       /\ r.access_token.key \in 1..nkeys
       /\ r.access_token.user_id = r.user_id
       /\ l.decoded

\* C9: a check reads the ledger or the sessions only after the signature and
\* the subject checks passed, a forged token is answered without any store
\* access, and the ledger is read before the sessions.
C9_ChecksBeforeStore ==
  /\ \A p \in Procs : req[p].op = "check" => OrderedReads(req[p], loc[p])
  /\ last.req.op = "check" =>
       /\ OrderedReads(last.req, last.loc)
       /\ IsForged(last.resp) => last.loc.reads = <<>>

\* A check read the ledger and then the sessions.
C9_Witness ==
  /\ CheckedLast
  /\ last.loc.reads = <<"revoked_tokens", "sessions">>
  /\ OrderedReads(last.req, last.loc)

\* C10: a check of an expired token that verified for the declared user and
\* has a ledger row for this token and user answers 401 with refresh = false
\* (500 when the lookup fails), also when a matching session exists.
C10_RevokedBeatsSession ==
  [][\A p \in Procs : CheckReturns(p) =>
       LET tok == req[p].access_token
           uid == req[p].user_id IN
       ( /\ last'.loc.decoded
         /\ tok.user_id = uid
         /\ now > tok.exp
         /\ Listed(tok, uid)
         /\ last'.resp.code # 500 )
       => NotRefreshable(last'.resp)]_vars

\* A listed expired token was answered revoked while a non-expired session
\* held its hash.
C10_Witness ==
  /\ CheckedLast
  /\ last.loc.decoded
  /\ now > last.req.access_token.exp
  /\ Listed(last.req.access_token, last.req.user_id)
  /\ Matching(last.req.access_token, last.req.user_id)
  /\ NotRefreshable(last.resp)

\* C11: a check of an expired token that verified for the declared user, has
\* no ledger row and whose hash is the refresh_token_hash of a non-expired
\* session of that user answers 401 with refresh = true (500 when a lookup
\* fails).
C11_ExpiredRefreshable ==
  [][\A p \in Procs : CheckReturns(p) =>
       LET tok == req[p].access_token
           uid == req[p].user_id IN
       ( /\ last'.loc.decoded
         /\ tok.user_id = uid
         /\ now > tok.exp
         /\ ~Listed(tok, uid)
         /\ Matching(tok, uid)
         /\ last'.resp.code # 500 )
       => /\ last'.resp.code = 401
          /\ last'.resp.refresh
          /\ ~last'.resp.token_valid]_vars

\* An expired token without a ledger row was answered refreshable after both
\* lookups.
C11_Witness ==
  /\ CheckedLast
  /\ last.loc.decoded
  /\ now > last.req.access_token.exp
  /\ ~Listed(last.req.access_token, last.req.user_id)
  /\ Matching(last.req.access_token, last.req.user_id)
  /\ last.loc.reads = <<"revoked_tokens", "sessions">>
  /\ last.resp.code = 401
  /\ last.resp.refresh

\* C12: a check of a token that verifies under the public key, whose subject
\* is the declared user_id and whose exp has not passed ends at the decode
\* step with 200 and token_valid = true.
C12_UnexpiredValid ==
  [][\A p \in Procs :
       ( /\ DecodeStep(p)
         /\ ~BadSignature(req[p].access_token)
         /\ req[p].access_token.user_id = req[p].user_id
         /\ now <= req[p].access_token.exp ) =>
         /\ pc'[p] = "idle"
         /\ last'.resp.code = 200
         /\ last'.resp.token_valid
         /\ ~last'.resp.refresh]_vars

\* An issued token was answered valid for its owner before its exp.
C12_Witness ==
  /\ CheckedLast
  /\ last.req.access_token \in issued
  /\ last.req.access_token.user_id = last.req.user_id
  /\ now <= last.req.access_token.exp
  /\ last.resp.code = 200
  /\ last.resp.token_valid

\* This step is a step of a check_jwt request: it arrives, moves on or
\* returns.
CheckStep ==
  \/ \E p \in Procs : req[p].op = "check" /\ pc'[p] # pc[p]
  \/ \E p \in Procs : pc[p] = "idle" /\ pc'[p] # "idle" /\ req'[p].op = "check"
  \/ UNCHANGED pc /\ nreq' # nreq /\ last'.req.op = "check"

\* C13: no step of a check writes the sessions or the ledger, and a check that
\* repeats the check answered 200 just before it, with the token still
\* unexpired and the public key still the one it verified under, is answered
\* 200 again.
C13_CheckReadOnlyIdempotent ==
  [][/\ CheckStep => UNCHANGED <<sessions, ledger, nextId>>
     /\ \A p \in Procs :
          ( /\ DecodeStep(p)
            /\ loc[p].repeat
            /\ publicKey = req[p].access_token.key
            /\ now <= req[p].access_token.exp ) =>
            /\ pc'[p] = "idle"
            /\ last'.resp.code = 200
            /\ last'.resp.token_valid]_vars

\* The same check was answered 200 twice in a row, with sessions in the store.
C13_Witness ==
  /\ CheckedLast
  /\ last.loc.repeat
  /\ last.resp.code = 200
  /\ last.resp.token_valid
  /\ sessions # {}

\* This step is a logout request that carried both tokens.
LogoutStep ==
  /\ UNCHANGED pc
  /\ nreq' # nreq
  /\ last'.req.op = "logout"
  /\ last'.req.access_token # NoToken
  /\ last'.req.refresh_token # NoToken

RowsOf(tok) == {e \in ledger : e.token_hash = <<"sha256", tok>>}

\* C14: a logout that carries an access token and a refresh token is answered
\* 200, whatever the tokens and whatever the store holds.
C14_LogoutSucceeds ==
  ( /\ last.req.op = "logout"
    /\ last.req.access_token # NoToken
    /\ last.req.refresh_token # NoToken )
  => last.resp.code = 200

\* C15: a logout of an issued pair that repeats the logout answered just before it is answered
\* 200 and leaves exactly one ledger row for each of the two tokens.
C15_LogoutTwice ==
  [][( /\ LogoutStep
       /\ last'.req.access_token \in issued
       /\ last.req = last'.req ) =>
       /\ last'.resp.code = 200
       /\ Cardinality({e \in ledger' : e.token_hash = <<"sha256", last'.req.access_token>>}) = 1
       /\ Cardinality({e \in ledger' : e.token_hash = <<"sha256", last'.req.refresh_token>>}) = 1]_vars

\* C16: after a logout that carried an issued pair the ledger holds a row for the
\* access token and a row for the refresh token, and no session of that access
\* token is left.
C16_LogoutRevokesBoth ==
  ( /\ last.req.op = "logout"
    /\ last.req.access_token \in issued
    /\ last.req.refresh_token \in issued )
  => /\ RowsOf(last.req.access_token) # {}
     /\ RowsOf(last.req.refresh_token) # {}
     /\ \A s \in sessions : s.access_token # last.req.access_token

\* The worker p finishes a local_auth request in this step.
AuthReturns(p) == req[p].op = "auth" /\ pc[p] # "idle" /\ pc'[p] = "idle"

\* The login exists and the asserted hash is the stored one.
RightCredentials(r) ==
  /\ r.login \in DOMAIN UsersTable
  /\ r.password = UsersTable[r.login].password_hash

\* C17: an authentication with an existing login and the stored hash, none of
\* whose store calls failed, is answered 200 with an access and a refresh
\* token of that user and expires_in = the access token's lifetime, and its
\* last step adds exactly one session, of that user, to the store.
C17_AuthenticateSucceeds ==
  [][\A p \in Procs :
       (AuthReturns(p) /\ RightCredentials(req[p]) /\ ~last'.loc.store_failed) =>
         LET u == UsersTable[req[p].login].user_id
             r == last'.resp
             new == sessions' \ sessions IN
         /\ r.code = 200
         /\ r.access_token.type = "access" /\ r.access_token.user_id = u
         /\ r.refresh_token.type = "refresh" /\ r.refresh_token.user_id = u
         /\ r.expires_in = r.access_token.exp - r.access_token.iat
         /\ r.expires_in > 0
         /\ sessions \subseteq sessions'
         /\ Cardinality(new) = 1
         /\ \A s \in new : s.user_id = u /\ s.access_token = r.access_token]_vars

\* C18: every authentication with an unknown login or with a wrong hash that
\* is not answered 500 gets one and the same response: 403 with the message
\* of invalid credentials and nothing else.
C18_FailuresIndistinguishable ==
  [][\A p \in Procs :
       (AuthReturns(p) /\ ~RightCredentials(req[p]) /\ last'.resp.code # 500) =>
         last'.resp = [NoResp EXCEPT !.code = 403, !.verdict = "auth_failed",
                                     !.message = "invalid_credentials"]]_vars

\* An existing login with a wrong hash was answered 403.
C18_Witness ==
  /\ last.req.op = "auth"
  /\ last.req.login \in DOMAIN UsersTable
  /\ last.req.password # UsersTable[last.req.login].password_hash
  /\ last.resp.code = 403
  /\ last.resp.message = "invalid_credentials"

\* C19: an authentication with an unknown login or a wrong hash never gets
\* past the user lookup, returns no token and changes no session; a session
\* is added only by the INSERT of create_session, the step that follows the
\* issue of a token pair to a verified user.
C19_FailedAuthNoEffect ==
  /\ [](\A p \in Procs :
          (req[p].op = "auth" /\ ~RightCredentials(req[p])) =>
            pc[p] = "auth_lookup" /\ loc[p] = NoLoc)
  /\ [][/\ \A p \in Procs :
            (AuthReturns(p) /\ ~RightCredentials(req[p])) =>
              /\ UNCHANGED <<sessions, nextId, issued>>
              /\ last'.resp.access_token = NoToken
              /\ last'.resp.refresh_token = NoToken
              /\ last'.loc.reads = <<"users">>
        /\ ~(sessions' \subseteq sessions) =>
             \E p \in Procs : /\ req[p].op = "create_session"
                              /\ pc[p] = "auth_insert"
                              /\ last'.resp.code = 200]_vars

\* An authentication with an unknown login was answered 403 after the user
\* lookup alone.
C19_Witness ==
  /\ last.req.op = "auth"
  /\ last.req.login \notin DOMAIN UsersTable
  /\ last.resp.code = 403
  /\ last.loc.reads = <<"users">>
  /\ sessions = {}
  /\ issued = {}

\* C20: every session in the store holds the hash of the refresh token that
\* was issued together with the session's access token: same user, same iat,
\* same key.
C20_RefreshHashOfPair ==
  \A s \in sessions :
    /\ s.access_token \in issued
    /\ s.access_token.type = "access"
    /\ \E r \in issued :
         /\ r.type = "refresh"
         /\ r.user_id = s.access_token.user_id
         /\ r.iat = s.access_token.iat
         /\ r.key = s.access_token.key
         /\ s.refresh_token_hash = <<"sha256", r>>

\* The store holds two sessions created for different token pairs.
C20_Witness ==
  \E s1, s2 \in sessions : s1.access_token # s2.access_token

\* C21: within one process the signing key pair is generated at most once,
\* also when several requests use it for the first time concurrently, and a
\* key the process holds is never replaced by another one.
C21_KeysGeneratedOnce ==
  /\ [](nkeys <= 1)
  /\ [][/\ privateKey # 0 => privateKey' = privateKey
        /\ publicKey # 0 => publicKey' = publicKey]_vars

\* C22: a token issued to a user by another process of the deployment (signed
\* with that process's key) and presented with that user's id is not answered
\* forged by a check in this process.
C22_OtherProcessTokenAuthentic ==
  ( /\ CheckedLast
    /\ last.req.access_token \in ForeignTokens
    /\ last.req.access_token.user_id = last.req.user_id
    /\ last.resp.code # 500 )
  => ~IsForged(last.resp)

\* C23: when generate_tokens is done for a verified user, the handler holds
\* an access and a refresh token that decode under the process's public key
\* to that user as subject, to their own type, and to exp = iat + the
\* configured lifetime of the type.
C23_IssueDecodeRoundTrip ==
  [][\A p \in Procs :
       (pc[p] = "auth_sign" /\ pc'[p] # "auth_sign") =>
         LET a == loc'[p].access_token
             r == loc'[p].refresh_token IN
         /\ pc'[p] # "idle"
         /\ DecodeOk(a, publicKey') /\ DecodeOk(r, publicKey')
         /\ a.user_id = loc[p].user_id /\ r.user_id = loc[p].user_id
         /\ a.type = "access" /\ r.type = "refresh"
         /\ a.exp = a.iat + AccessExpires
         /\ r.exp = r.iat + RefreshExpires]_vars

\* C24: in a sequence of session creations for one user, one after the other,
\* a creation that finds max_sessions sessions of the user, none expired and
\* with distinct created_at, evicts all but the max_sessions - 1 most recently
\* created ones, and its INSERT, if nothing expired meanwhile, adds the newest
\* row: exactly max_sessions sessions remain, the most recently created ones.
C24_SequentialKeepsNewest ==
  [][\A p \in Procs :
       LET u == loc[p].user_id
           R == UserRows(sessions, u) IN
       /\ ( /\ pc[p] = "auth_cleanup" /\ pc'[p] = "auth_insert"
            /\ ExpiredRows(sessions, u, now) = {}
            /\ Cardinality(R) >= MaxSessions
            /\ \A a, b \in R : a # b => a.created_at # b.created_at )
          => UserRows(sessions', u) =
               {s \in R : Cardinality({x \in R : Older(s, x)}) < MaxSessions - 1}
       /\ ( /\ pc[p] = "auth_insert" /\ pc'[p] = "idle" /\ last'.resp.code = 200
            /\ loc[p].active_count >= MaxSessions
            /\ loc[p].expired_deleted = {}
            /\ ExpiredRows(sessions, u, now) = {} )
          => /\ Cardinality(UserRows(sessions', u)) = MaxSessions
             /\ R \subseteq sessions'
             /\ \A n \in sessions' \ sessions :
                  n.user_id = u /\ \A s \in R : Older(s, n)]_vars

\* Three sessions were created one after the other with none expiring: the
\* third creation evicted the first session and the second and third remain.
C24_Witness ==
  /\ \A p \in Procs : pc[p] = "idle"
  /\ Ids(UserRows(sessions, "u1")) = {2, 3}
  /\ last.resp.code = 200
  /\ last.loc.old_deleted = {1}
  /\ last.loc.expired_deleted = {}
  /\ ExpiredRows(sessions, "u1", now) = {}

\* C25: the cleanup of a session creation removes every session of the user
\* whose expires_at has passed, counts the user's remaining sessions only, and
\* evicts a non-expired session only if that count reaches max_sessions.
C25_ExpiredDeletedBeforeCount ==
  [][\A p \in Procs :
       (pc[p] = "auth_cleanup" /\ pc'[p] = "auth_insert") =>
         LET u == loc[p].user_id
             active == ActiveRows(sessions, u, now)
             evicted == active \ sessions' IN
         /\ \A s \in UserRows(sessions', u) : s.expires_at > now
         /\ sessions' \subseteq sessions
         /\ loc'[p].active_count = Cardinality(active)
         /\ evicted # {} => Cardinality(active) >= MaxSessions
         /\ \A s \in sessions \ sessions' : s.user_id = u]_vars

\* A creation is past its cleanup, which deleted an expired session and, the
\* remaining one not filling the limit, evicted none.
C25_Witness ==
  \E p \in Procs :
    /\ pc[p] = "auth_insert"
    /\ loc[p].expired_deleted # {}
    /\ loc[p].old_deleted = {}
    /\ loc[p].active_count = MaxSessions - 1
    /\ Cardinality(UserRows(sessions, loc[p].user_id)) = MaxSessions - 1

\* C26: a request one of whose store calls failed or timed out ends at that
\* call with the error response: 500, no token, token_valid = false, refresh
\* = false; no handler goes on after a failed store call.
C26_StoreFailureIsError ==
  /\ \A p \in Procs : ~loc[p].store_failed
  /\ last.loc.store_failed =>
       /\ last.resp.code = 500
       /\ ~last.resp.token_valid
       /\ ~last.resp.refresh
       /\ last.resp.access_token = NoToken
       /\ last.resp.refresh_token = NoToken

\* The session lookup of a check failed after its ledger lookup had succeeded,
\* and the check was answered 500.
C26_Witness ==
  /\ last.req.op = "check"
  /\ last.loc.store_failed
  /\ last.loc.reads = <<"revoked_tokens", "sessions">>
  /\ last.resp.code = 500

\* C27: the revocation ledger is append-only: no step removes or changes a
\* row of it.
C27_LedgerAppendOnly == [][ledger \subseteq ledger']_vars

\* A check found its token in the ledger and a logout followed, the rows
\* still being in the ledger.
C27_Witness ==
  /\ ledger = LedgerSeed
  /\ last.req.op = "logout"
  /\ last.req.access_token # NoToken
  /\ last.req.refresh_token # NoToken
  /\ nreq = MaxRequests

\* C28: the log records written while an Authenticate, CheckToken or Logout
\* request is served contain no token that is in a client's hands and no
\* password hash.
C28_NoSecretsLogged ==
  /\ last.loc.logs.tokens \cap issued = {}
  /\ last.loc.logs.password_hashes = {}

\* C29: a check of an issued access token, presented by its owner after its
\* exp, not listed in the ledger, while the session created for it is in the
\* store and not expired, answers 401 with refresh = true (500 when a lookup
\* fails).
C29_LiveSessionRefreshable ==
  [][\A p \in Procs : CheckReturns(p) =>
       LET tok == req[p].access_token
           uid == req[p].user_id IN
       ( /\ last'.loc.decoded
         /\ tok \in issued
         /\ tok.type = "access"
         /\ tok.user_id = uid
         /\ now > tok.exp
         /\ ~Listed(tok, uid)
         /\ \E s \in sessions : /\ s.access_token = tok
                                 /\ s.user_id = uid
                                 /\ s.expires_at > now
         /\ last'.resp.code # 500 )
       => /\ last'.resp.code = 401
          /\ last'.resp.refresh]_vars

\* C30: a logout that carried both tokens either has all its writes in the
\* store (a ledger row for each token, no session of the access token) or
\* none; when it is answered with an error, the ledger and the sessions are
\* as they were before it.
C30_LogoutAtomic ==
  [][LogoutStep =>
       /\ \/ UNCHANGED <<ledger, sessions>>
          \/ /\ \E e \in ledger' : e.token_hash = <<"sha256", last'.req.access_token>>
             /\ \E e \in ledger' : e.token_hash = <<"sha256", last'.req.refresh_token>>
             /\ \A s \in sessions' : s.access_token # last'.req.access_token
       /\ last'.resp.code # 200 => UNCHANGED <<ledger, sessions>>]_vars

\* A logout of an issued pair whose store call failed was answered 500; the
\* ledger has no row for its tokens and the session of its access token is
\* still in the store.
C30_Witness ==
  /\ last.req.op = "logout"
  /\ last.req.access_token \in issued
  /\ last.loc.store_failed
  /\ last.resp.code = 500
  /\ RowsOf(last.req.access_token) = {}
  /\ RowsOf(last.req.refresh_token) = {}
  /\ \E s \in sessions : s.access_token = last.req.access_token

\* C31: a token pair gets into the caller's hands only in the step that
\* commits the session row of its access token, and a request that ends
\* without success hands out no token and adds no session.
C31_TokensAfterCommit ==
  [][/\ \A tok \in issued' \ issued :
          tok.type = "access" => \E s \in sessions' \ sessions : s.access_token = tok
     /\ issued' # issued => \E s \in sessions' \ sessions : s.access_token \in issued'
     /\ \A p \in Procs :
          ( /\ req[p].op \in {"auth", "create_session"}
            /\ pc[p] # "idle" /\ pc'[p] = "idle"
            /\ last'.resp.code # 200 ) =>
            /\ issued' = issued
            /\ sessions' \subseteq sessions
            /\ last'.resp.access_token = NoToken
            /\ last'.resp.refresh_token = NoToken]_vars

\* The INSERT of a create_session failed after its cleanup had succeeded: the
\* call ended with an error and its token pair is in nobody's hands.
C31_Witness ==
  /\ last.req.op = "create_session"
  /\ last.loc.store_failed
  /\ last.loc.reads = <<"sessions", "sessions">>
  /\ last.resp.code = 500
  /\ last.req.access_token \notin issued
  /\ \A s \in sessions : s.access_token # last.req.access_token

\* C32: a session creation with no other creation beside it that counts n >
\* max_sessions non-expired sessions of the user evicts n - max_sessions + 1
\* of them, none newer than a session it leaves, and after its INSERT, if
\* nothing expired meanwhile, the user has exactly max_sessions sessions.
C32_OverfullTrimmed ==
  [][\A p \in Procs :
       LET u == loc[p].user_id
           active == ActiveRows(sessions, u, now)
           evicted == active \ sessions' IN
       /\ ( /\ pc[p] = "auth_cleanup" /\ pc'[p] = "auth_insert"
            /\ Cardinality(active) > MaxSessions )
          => /\ Cardinality(evicted) = Cardinality(active) - MaxSessions + 1
             /\ \A d \in evicted : \A s \in active \ evicted : d.created_at <= s.created_at
       /\ ( /\ pc[p] = "auth_insert" /\ pc'[p] = "idle" /\ last'.resp.code = 200
            /\ loc[p].active_count > MaxSessions
            /\ ExpiredRows(sessions, u, now) = {} )
          => Cardinality(UserRows(sessions', u)) = MaxSessions]_vars

\* A creation that counted max_sessions + 2 sessions evicted three of them
\* and returned with max_sessions sessions of the user in the store.
C32_Witness ==
  /\ last.req.op = "create_session"
  /\ last.resp.code = 200
  /\ last.loc.active_count = MaxSessions + 2
  /\ Cardinality(last.loc.old_deleted) = 3
  /\ Cardinality(UserRows(sessions, "u1")) = MaxSessions

\* C33: no step of a session creation for a user deletes or changes a session
\* of another user.
C33_OtherUsersUntouched ==
  [][\A p \in Procs :
       (req[p].op = "create_session" /\ pc'[p] # pc[p]) =>
         \A s \in sessions : s.user_id # loc[p].user_id => s \in sessions']_vars

\* A creation for u1 is past its cleanup, which deleted expired sessions of
\* u1, and an expired session of u2 is still in the store.
C33_Witness ==
  \E p \in Procs :
    /\ pc[p] = "auth_insert"
    /\ loc[p].user_id = "u1"
    /\ loc[p].expired_deleted # {}
    /\ \E s \in sessions : s.user_id = "u2" /\ s.expires_at <= now

\* C34: a check that repeats the check answered forged, expired or revoked
\* just before it, in the same process, is not answered valid.
C34_NonValidStays ==
  (CheckedLast /\ last.loc.refused) => last.resp.code # 200

\* Names recorded in the table applied_migrations.
RecordedNames == {r.name : r \in Range(applied_migrations)}

\* C35: run_migrations is idempotent: a run that found, when it started, no
\* file outside the table hands nothing to apply_migration and changes
\* neither the table nor the schema; and over any sequence of runs every migration is applied and
\* recorded at most once.
C35_RunMigrationsIdempotent ==
  /\ [](\A n \in MigrationNames :
          /\ schema[n] <= 1
          /\ Cardinality({i \in DOMAIN applied_migrations :
                            applied_migrations[i].name = n}) <= 1)
  /\ [][(run.pc = "loop" /\ Range(run.listed) \subseteq DOMAIN run.applied) =>
          /\ run'.attempted = <<>>
          /\ UNCHANGED <<applied_migrations, schema>>]_vars

\* A second run over recorded files returned without applying anything.
C35_Witness ==
  /\ run.op = "run"
  /\ run.result = "ok"
  /\ run.listed # <<>>
  /\ run.attempted = <<>>
  /\ Range(run.listed) = RecordedNames
  /\ Len(applied_migrations) >= 2

\* C36: run_migrations applies the pending files in ascending order of their
\* names (a file is applied when every listed file before it is recorded); a
\* migration is recorded only in the step that committed all its statements;
\* a failing migration leaves table and schema as they were, is not recorded,
\* and after it nothing more is applied in that run.
C36_AppliesInOrder ==
  /\ [][(run.pc = "loop" /\ run'.attempted # run.attempted) =>
          LET f == run'.attempted[Len(run'.attempted)] IN
          /\ \A g \in Range(run.listed) : g < f => g \in RecordedNames
          /\ \A g \in Range(run.attempted) : g < f
          /\ f \notin RecordedNames
          /\ applied_migrations' # applied_migrations =>
               /\ run'.executed = NumStatements
               /\ schema' = [schema EXCEPT ![f] = @ + 1]
               /\ applied_migrations' =
                    Append(applied_migrations,
                           [name |-> f, checksum |-> SHA256(migration_files[f])])
          /\ applied_migrations' = applied_migrations =>
               /\ schema' = schema
               /\ run'.result = "MigrationError"
               /\ run'.pc = "idle"]_vars
  /\ [][(schema' # schema \/ applied_migrations' # applied_migrations) =>
          (run.pc = "loop" /\ run'.attempted # run.attempted)]_vars
  /\ [][(run.result = "MigrationError" /\ run'.runs = run.runs) =>
          UNCHANGED <<applied_migrations, schema, run>>]_vars

\* A run applied one migration, the next one failed at its second statement
\* and a later file was left unapplied.
C36_Witness ==
  /\ run.op = "run"
  /\ run.result = "MigrationError"
  /\ Len(run.applied_now) = 1
  /\ Len(run.attempted) = 2
  /\ run.executed = 1
  /\ Len(run.todo) = 2
  /\ RecordedNames = Range(run.applied_now)
  /\ schema[run.attempted[2]] = 0

\* The file of a recorded migration is missing or has another checksum.
RecordedBroken ==
  \E r \in Range(applied_migrations) :
    \/ migration_files[r.name] = NoFile
    \/ SHA256(migration_files[r.name]) # r.checksum

\* C37: when the file of a recorded migration is missing or its checksum
\* differs, run_migrations raises MigrationError without applying anything,
\* and check_migrations_status returns False without raising.
C37_BrokenHistoryRefused ==
  [][(run.pc = "idle" /\ RecordedBroken /\ run'.runs = run.runs + 1) =>
       /\ UNCHANGED <<applied_migrations, schema>>
       /\ run'.pc = "idle"
       /\ run'.attempted = <<>>
       /\ run'.op = "run" => run'.result = "MigrationError"
       /\ run'.op = "status" => run'.result = "False"]_vars

\* run_migrations raised on an edited recorded file while a file was pending.
C37_Witness ==
  /\ run.op = "run"
  /\ run.result = "MigrationError"
  /\ run.attempted = <<>>
  /\ \E r \in Range(applied_migrations) :
       /\ migration_files[r.name] # NoFile
       /\ SHA256(migration_files[r.name]) # r.checksum
  /\ Range(get_migration_files) \ RecordedNames # {}

\* C38: wait_for_database_connection terminates after at most max_retries
\* attempts; it returns True at the first attempt that succeeds and False
\* when every attempt failed; it never sleeps after its last failed attempt.
C38_WaitTerminates ==
  /\ [](/\ wait.attempts <= wait.max_retries
        /\ wait.pc = "loop" => ~wait.connected
        /\ (wait.pc = "idle" /\ wait.calls > 0) =>
             wait.result = IF wait.connected THEN "True" ELSE "False"
        /\ wait.result = "False" => ~wait.slept)
  /\ [][wait'.sleeps > wait.sleeps =>
          (wait'.pc = "loop" /\ wait'.attempts < wait'.max_retries)]_vars
  /\ (wait.pc = "loop") ~> (wait.pc = "idle")

\* The call made max_retries attempts, slept between them and returned False.
C38_Witness ==
  /\ wait.impl = "app"
  /\ wait.result = "False"
  /\ wait.max_retries >= 2
  /\ wait.attempts = wait.max_retries
  /\ wait.sleeps = wait.max_retries - 1

\* C39: after a failed reload the ConfigReader keeps the configuration of its
\* last successful load, and every get serves a value of that load.
C39_KeepsLastGoodConfig ==
  /\ [](config._config = config.loaded)
  /\ [][config'.served # config.served =>
          config'.served = Served(TRUE, config.loaded.v)]_vars

====
